---- MODULE Spec2Model ----
(***************************************************************************)
(* State-machine model of the feed reconciliation engine of nyc-subway-rs  *)
(* (src/src/feed.rs): FeedProcessor::fetch, FeedProcessor::update and      *)
(* FeedManager::update, with the snapshot merge and publish.               *)
(*                                                                         *)
(* Option<T> values are modelled as sequences of length 0 (None) or 1      *)
(* (Some).  A HashMap is modelled as a function from its keys; the order   *)
(* in which a HashMap is iterated is a nondeterministic choice.            *)
(***************************************************************************)
EXTENDS Naturals, Sequences, FiniteSets

\* ------------------------------------------------------------------ bounds

\* Number of feeds handled by the manager (the registry FEEDS has 8).
NumFeeds == 2
\* Largest header timestamp a served message carries.
MaxTs == 2
\* Largest header timestamp of a message served to a processor driven directly.
ProcMaxTs == 3
\* Largest event timestamp of a vehicle position.
MaxVts == 2
\* Sets of at most this size are iterated in every order; larger ones in
\* ascending and descending trip order only.
MaxPerm == 2
\* Number of trips of the bulk messages (queues longer than ten operations).
BulkTrips == 12
\* Largest header timestamp of a message of the shape messages.
ShapeMaxTs == 2
\* Largest number of snapshots sent and not yet received.
MaxPending == 2

\* ------------------------------------------------------------- static data

None == << >>
Some(x) == << x >>

\* Trip ids, in a fixed order used to enumerate large sets.
TripNames ==
  << "t01", "t02", "t03", "t04", "t05", "t06", "t07", "t08", "t09", "t10",
     "t11", "t12", "t13", "t14", "t15", "t16", "t17", "t18", "t19", "t20",
     "t21", "t22", "t23", "t24" >>

\* The static stop collection (a BTreeMap keyed by stop id): A1 is a platform
\* of station A; A and B are parent-level stations.
StopOrder == << "A", "A1", "B" >>
StopIds == { StopOrder[i] : i \in 1..Len(StopOrder) }
stops ==
  [ s \in StopIds |->
      [ id |-> s, parent |-> IF s = "A1" THEN Some("A") ELSE None ] ]

\* The route lookup: route id -> color.
RouteIds == { "R1", "R2" }
routes == [ r \in RouteIds |-> IF r = "R1" THEN "red" ELSE "blue" ]

\* The route a trip runs on, as the feed reports it; t03 runs on a route
\* that is not in the route lookup.
RouteOf(t) == IF t = "t01" THEN "R1" ELSE IF t = "t03" THEN "R9" ELSE "R2"

\* The feed registry: indices into FeedManager.feeds.
FEEDS == 0 .. (NumFeeds - 1)

\* StopInstance::default()
DefaultColor == "white"
DefaultScale == 0
\* scale of an active instance, in tenths (0.5)
ActiveScale == 5
\* divisor of the batch size
BatchDiv == 10

\* ---------------------------------------------------------------- HashMap

EmptyMap == [ k \in {} |-> None ]
\* HashMap::insert: the value under an existing key is replaced.
MapInsert(m, k, v) == [ x \in (DOMAIN m) \cup {k} |-> IF x = k THEN v ELSE m[x] ]
\* HashMap::remove: no effect when the key is absent.
MapRemove(m, k) == [ x \in (DOMAIN m) \ {k} |-> m[x] ]

\* The orders in which a HashMap with key set S can be iterated.
Orders(S) ==
  LET n == Cardinality(S) IN
  IF n <= MaxPerm
    THEN { q \in [1..n -> S] : \A a, b \in 1..n : q[a] = q[b] => a = b }
    ELSE LET asc == SelectSeq(TripNames, LAMBDA t : t \in S)
         IN { asc, [ a \in 1..n |-> asc[n + 1 - a] ] }

\* ------------------------------------------------------------ feed message

\* An entity carrying a vehicle position of trip t at raw stop raw.
Veh(t, raw, status, vts) ==
  [ vehicle |-> Some([ trip |-> Some([ trip_id |-> t, route_id |-> RouteOf(t) ]),
                       stop_id |-> Some(raw),
                       current_status |-> status,
                       timestamp |-> vts ]),
    trip_update |-> None ]

\* An entity carrying a trip update of trip t whose stop_time_update list
\* names the raw stops stus, in order.
TU(t, stus) ==
  [ vehicle |-> None,
    trip_update |-> Some([ trip |-> [ trip_id |-> t ],
                           stop_time_update |->
                             [ j \in 1..Len(stus) |-> [ stop_id |-> stus[j] ] ] ]) ]

FeedMessage(T, ents) == [ header |-> [ timestamp |-> Some(T) ], entity |-> ents ]

\* A message whose header carries no timestamp.
UntimedMessage(ents) == [ header |-> [ timestamp |-> None ], entity |-> ents ]

\* Variant of Timestamp: an absent field reads as 1.
TimestampAbsentAsOne(msg) ==
  IF msg.header.timestamp = None THEN 1 ELSE msg.header.timestamp[1]

\* msg.header.timestamp() (feed.rs 232): the getter of the optional field, 0
\* when the field is absent.
Timestamp(msg) ==
  IF msg.header.timestamp = None THEN 0 ELSE msg.header.timestamp[1]

\* --------------------------------------------------- FeedProcessor::fetch

\* Variant of StaticStopId: the id of the stop itself, parent or not.
StaticStopIdOwn(stop) == stop.id

\* parent id when the stop has one, else its own id (feed.rs 250-254, 272-276)
StaticStopId(stop) == IF stop.parent # None THEN stop.parent[1] ELSE stop.id

\* The station a stop id names by the convention of the ids.
StationByName(raw) == IF raw = "B9" THEN "B" ELSE raw

\* Variant of VehicleUpdate: a stop the static collection does not know is
\* resolved by the convention of the ids.
VehicleUpdateByName(entity) ==
  IF entity.vehicle = None THEN << >>
  ELSE LET vehicle_pos == entity.vehicle[1] IN
       IF /\ vehicle_pos.stop_id # None
          /\ vehicle_pos.trip # None
          /\ vehicle_pos.current_status = "STOPPED_AT"
       THEN << [ trip_id |-> vehicle_pos.trip[1].trip_id,
                 timestamp |-> vehicle_pos.timestamp,
                 route_id |-> vehicle_pos.trip[1].route_id,
                 stop_id |-> IF vehicle_pos.stop_id[1] \in DOMAIN stops
                               THEN StaticStopId(stops[vehicle_pos.stop_id[1]])
                               ELSE StationByName(vehicle_pos.stop_id[1]),
                 color |-> None ] >>
       ELSE << >>

\* The FeedEntity pushed to vehicle_updates for one message entity, if any.
VehicleUpdate(entity) ==
  IF entity.vehicle = None THEN << >>
  ELSE LET vehicle_pos == entity.vehicle[1] IN
       IF /\ vehicle_pos.stop_id # None
          /\ vehicle_pos.trip # None
          /\ vehicle_pos.current_status = "STOPPED_AT"
          /\ vehicle_pos.stop_id[1] \in DOMAIN stops
       THEN << [ trip_id |-> vehicle_pos.trip[1].trip_id,
                 timestamp |-> vehicle_pos.timestamp,
                 route_id |-> vehicle_pos.trip[1].route_id,
                 stop_id |-> StaticStopId(stops[vehicle_pos.stop_id[1]]),
                 color |-> None ] >>
       ELSE << >>

RECURSIVE VehicleUpdates(_)
VehicleUpdates(ents) ==
  IF ents = << >> THEN << >>
  ELSE VehicleUpdates(SubSeq(ents, 1, Len(ents) - 1)) \o VehicleUpdate(ents[Len(ents)])

\* Variant of TripStop: the last stop_time_update is used.
TripStopLast(latest, entity) ==
  IF entity.trip_update = None THEN latest
  ELSE LET trip_update == entity.trip_update[1] IN
       IF trip_update.stop_time_update = << >> THEN latest
       ELSE LET stop_id ==
                  trip_update.stop_time_update[Len(trip_update.stop_time_update)].stop_id
            IN
            IF stop_id \in DOMAIN stops
              THEN MapInsert(latest, trip_update.trip.trip_id,
                             StaticStopId(stops[stop_id]))
              ELSE latest

\* latest_trip_stop after one more entity: the first stop_time_update of a
\* trip update, when the static collection knows its stop.
TripStop(latest, entity) ==
  IF entity.trip_update = None THEN latest
  ELSE LET trip_update == entity.trip_update[1] IN
       IF trip_update.stop_time_update = << >> THEN latest
       ELSE LET stop_id == trip_update.stop_time_update[1].stop_id IN
            IF stop_id \in DOMAIN stops
              THEN MapInsert(latest, trip_update.trip.trip_id,
                             StaticStopId(stops[stop_id]))
              ELSE latest

RECURSIVE LatestTripStop(_)
LatestTripStop(ents) ==
  IF ents = << >> THEN EmptyMap
  ELSE TripStop(LatestTripStop(SubSeq(ents, 1, Len(ents) - 1)), ents[Len(ents)])

\* Variant of AtLatestStop: a vehicle update whose trip has no latest stop is
\* kept.
AtLatestStopOrNone(latest, fe) ==
  IF fe.trip_id \in DOMAIN latest THEN latest[fe.trip_id] = fe.stop_id ELSE TRUE

\* The filter of feed.rs 288-294.
AtLatestStop(latest, fe) ==
  IF fe.trip_id \in DOMAIN latest THEN latest[fe.trip_id] = fe.stop_id ELSE FALSE

RECURSIVE FoldByTrip(_)
FoldByTrip(fes) ==
  IF fes = << >> THEN EmptyMap
  ELSE LET fe == fes[Len(fes)] IN
       MapInsert(FoldByTrip(SubSeq(fes, 1, Len(fes) - 1)), fe.trip_id, fe)

\* The vehicle updates of the first n entities that are at the latest stop
\* their trip has when their entity is read.
RECURSIVE KeptWhileRead(_, _)
KeptWhileRead(ents, n) ==
  IF n = 0 THEN << >>
  ELSE KeptWhileRead(ents, n - 1)
         \o SelectSeq(VehicleUpdate(ents[n]),
                      LAMBDA fe : AtLatestStop(LatestTripStop(SubSeq(ents, 1, n)), fe))

\* Variant of CurrentStopped: a vehicle update is matched while the entities
\* are read, against the trip updates read so far.
CurrentStoppedWhileRead(msg) == FoldByTrip(KeptWhileRead(msg.entity, Len(msg.entity)))

\* current_stopped (feed.rs 286-298)
CurrentStopped(msg) ==
  LET latest == LatestTripStop(msg.entity)
      kept == SelectSeq(VehicleUpdates(msg.entity), LAMBDA fe : AtLatestStop(latest, fe))
  IN FoldByTrip(kept)

\* Variant of RemovedTrips: a Remove is queued for the trips of the active set
\* that are no survivors.
RemovedTripsActive(p, current_stopped) ==
  { prev \in DOMAIN p.active_stops : prev \notin DOMAIN current_stopped }

\* Variant of RemovedTrips: a Remove is queued for every member, survivor or
\* not.
RemovedTripsAll(p, current_stopped) == p.active_stops_current

\* Trips for which a Remove is queued (feed.rs 301-308).
RemovedTrips(p, current_stopped) ==
  { prev \in p.active_stops_current : prev \notin DOMAIN current_stopped }

\* Variant of AddedTrips: an Add is queued for every survivor, member or not.
AddedTripsAll(current, current_stopped) == DOMAIN current_stopped

\* Trips for which an Add is queued (feed.rs 311-316), given the membership
\* marker left by the removal loop.
AddedTrips(current, current_stopped) ==
  { t \in DOMAIN current_stopped : t \notin current }

\* Variant of IsStale: no message is rejected.
IsStaleNever(p, msg) == FALSE

\* Variant of IsStale: a message as old as the last accepted one is accepted.
IsStaleStrict(p, msg) == p.fetched_at > Timestamp(msg)

\* feed.rs 234: the message is rejected as stale.
IsStale(p, msg) == p.fetched_at >= Timestamp(msg)

\* Variant of Fetch: a trip for which a Remove is queued stays in the
\* membership marker.
FetchKeepMarker(p, msg) ==
  IF IsStale(p, msg) THEN { p }
  ELSE
    LET current_stopped == CurrentStopped(msg)
        removed == RemovedTrips(p, current_stopped)
        added == AddedTrips(p.active_stops_current, current_stopped)
    IN { [ fetched_at |-> Timestamp(msg),
           queue |-> p.queue
                      \o [ a \in 1..Len(ro) |-> [ op |-> "Remove", trip_id |-> ro[a] ] ]
                      \o [ a \in 1..Len(ao) |-> [ op |-> "Add", fe |-> current_stopped[ao[a]] ] ],
           active_stops |-> p.active_stops,
           active_stops_current |-> p.active_stops_current \cup added ]
         : ro \in Orders(removed), ao \in Orders(added) }

\* Variant of Fetch: the Adds are queued before the Removes.
FetchAddsFirst(p, msg) ==
  IF p.fetched_at >= Timestamp(msg) THEN { p }
  ELSE
    LET current_stopped == CurrentStopped(msg)
        removed == { prev \in p.active_stops_current : prev \notin DOMAIN current_stopped }
        added == { t \in DOMAIN current_stopped : t \notin p.active_stops_current }
    IN { [ fetched_at |-> Timestamp(msg),
           queue |-> p.queue
                      \o [ a \in 1..Len(ao) |-> [ op |-> "Add", fe |-> current_stopped[ao[a]] ] ]
                      \o [ a \in 1..Len(ro) |-> [ op |-> "Remove", trip_id |-> ro[a] ] ],
           active_stops |-> p.active_stops,
           active_stops_current |-> (p.active_stops_current \ removed) \cup added ]
         : ro \in Orders(removed), ao \in Orders(added) }

\* The processor states FeedProcessor::fetch can leave, given the decoded
\* message (the two loops iterate HashMaps, in any order).
Fetch(p, msg) ==
  IF IsStale(p, msg) THEN { p }
  ELSE
    LET current_stopped == CurrentStopped(msg)
        removed == RemovedTrips(p, current_stopped)
        current == p.active_stops_current \ removed
        added == AddedTrips(current, current_stopped)
    IN { [ fetched_at |-> Timestamp(msg),
           queue |-> p.queue
                      \o [ a \in 1..Len(ro) |-> [ op |-> "Remove", trip_id |-> ro[a] ] ]
                      \o [ a \in 1..Len(ao) |-> [ op |-> "Add", fe |-> current_stopped[ao[a]] ] ],
           active_stops |-> p.active_stops,
           active_stops_current |-> current \cup added ]
         : ro \in Orders(removed), ao \in Orders(added) }

\* -------------------------------------------------- FeedProcessor::update

\* Variant of ApplyAdd: the entry is stored under its stop id.
ApplyAddByStop(active_stops, feed_entity) ==
  IF feed_entity.route_id \notin DOMAIN routes THEN active_stops
  ELSE MapInsert(active_stops, feed_entity.stop_id,
                 [ feed_entity EXCEPT !.color = Some(routes[feed_entity.route_id]) ])

\* Variant of ApplyAdd: an entry whose route is unknown is stored as it is,
\* without color.
ApplyAddUncolored(active_stops, feed_entity) ==
  MapInsert(active_stops, feed_entity.trip_id,
            IF feed_entity.route_id \in DOMAIN routes
              THEN [ feed_entity EXCEPT !.color = Some(routes[feed_entity.route_id]) ]
              ELSE feed_entity)

\* Variant of ApplyAdd: an entry whose route is unknown is stored with the
\* default color.
ApplyAddUnknownRoute(active_stops, feed_entity) ==
  MapInsert(active_stops, feed_entity.trip_id,
            [ feed_entity EXCEPT !.color =
                IF feed_entity.route_id \in DOMAIN routes
                  THEN Some(routes[feed_entity.route_id])
                  ELSE Some(DefaultColor) ])

\* Variant of ApplyAdd: the entry keeps the default color, the color of the
\* route is not looked up.
ApplyAddDefaultColor(active_stops, feed_entity) ==
  IF feed_entity.route_id \notin DOMAIN routes THEN active_stops
  ELSE MapInsert(active_stops, feed_entity.trip_id,
                 [ feed_entity EXCEPT !.color = Some(DefaultColor) ])

\* The Add arm (feed.rs 207-220).
ApplyAdd(active_stops, feed_entity) ==
  IF feed_entity.route_id \notin DOMAIN routes THEN active_stops
  ELSE MapInsert(active_stops, feed_entity.trip_id,
                 [ feed_entity EXCEPT !.color = Some(routes[feed_entity.route_id]) ])

\* Variant of ApplyRemove: the entry stays.
ApplyRemoveKeep(active_stops, trip_id) == active_stops

\* Variant of ApplyRemove: the active set is cleared.
ApplyRemoveClear(active_stops, trip_id) == EmptyMap

\* The Remove arm (feed.rs 221-224).
ApplyRemove(active_stops, trip_id) == MapRemove(active_stops, trip_id)

\* Variant of Update: None is returned when the Add of an unknown route is
\* discarded.
UpdateDiscardNone(p) ==
  IF p.queue = << >> THEN [ proc |-> p, some |-> FALSE, op |-> None ]
  ELSE LET front == Head(p.queue) IN
       [ proc |-> [ p EXCEPT !.queue = Tail(p.queue),
                             !.active_stops =
                               IF front.op = "Add"
                                 THEN ApplyAdd(p.active_stops, front.fe)
                                 ELSE ApplyRemove(p.active_stops, front.trip_id) ],
         some |-> ~ (front.op = "Add" /\ front.fe.route_id \notin DOMAIN routes),
         op |-> Some(front) ]

\* Variant of Update: the newest operation is popped (pop_back).
UpdatePopBack(p) ==
  IF p.queue = << >> THEN [ proc |-> p, some |-> FALSE, op |-> None ]
  ELSE LET back == p.queue[Len(p.queue)] IN
       [ proc |-> [ p EXCEPT !.queue = SubSeq(p.queue, 1, Len(p.queue) - 1),
                             !.active_stops =
                               IF back.op = "Add"
                                 THEN ApplyAdd(p.active_stops, back.fe)
                                 ELSE ApplyRemove(p.active_stops, back.trip_id) ],
         some |-> TRUE, op |-> Some(back) ]

\* FeedProcessor::update: the processor afterwards, whether Some(()) is
\* returned, and the operation popped.
Update(p) ==
  IF p.queue = << >> THEN [ proc |-> p, some |-> FALSE, op |-> None ]
  ELSE LET front == Head(p.queue) IN
       [ proc |-> [ p EXCEPT !.queue = Tail(p.queue),
                             !.active_stops =
                               IF front.op = "Add"
                                 THEN ApplyAdd(p.active_stops, front.fe)
                                 ELSE ApplyRemove(p.active_stops, front.trip_id) ],
         some |-> TRUE, op |-> Some(front) ]

\* ---------------------------------------------------- snapshot merge, publish

\* parent_stops (feed.rs 113-122): the ids of the stops without a parent, in
\* the order of the BTreeMap.
parent_stops == SelectSeq(StopOrder, LAMBDA s : stops[s].parent = None)

\* The sequences feeds.iter().flat_map(|feed| feed.active_stops.values())
\* can yield for the processors fs[0..n-1] (feed.rs 138-142).
RECURSIVE FlatValues(_, _)
FlatValues(fs, n) ==
  IF n = 0 THEN { << >> }
  ELSE { head \o [ a \in 1..Len(ks) |-> fs[n - 1].active_stops[ks[a]] ]
         : head \in FlatValues(fs, n - 1),
           ks \in Orders(DOMAIN fs[n - 1].active_stops) }

\* Variant of Before: the sort is ascending.
BeforeAscending(a, b) == a.timestamp < b.timestamp

\* The comparator of feed.rs 143: a goes before b.
Before(a, b) == a.timestamp > b.timestamp

\* Stable insertion of fe into a sequence sorted by Before.
RECURSIVE InsertSorted(_, _)
InsertSorted(sorted, fe) ==
  IF sorted = << >> THEN << fe >>
  ELSE IF Before(fe, sorted[Len(sorted)])
         THEN InsertSorted(SubSeq(sorted, 1, Len(sorted) - 1), fe)
                \o << sorted[Len(sorted)] >>
         ELSE sorted \o << fe >>

\* slice::sort_by (stable) with the comparator of feed.rs 143.
RECURSIVE SortByTimestamp(_)
SortByTimestamp(fes) ==
  IF fes = << >> THEN << >>
  ELSE InsertSorted(SortByTimestamp(SubSeq(fes, 1, Len(fes) - 1)), fes[Len(fes)])

\* The fold of feed.rs 145-150: the first entry met for each stop id stays.
RECURSIVE FirstByStop(_)
FirstByStop(fes) ==
  IF fes = << >> THEN EmptyMap
  ELSE LET rest == FirstByStop(Tail(fes)) IN
       MapInsert(rest, Head(fes).stop_id, Head(fes))

\* Variant of StopStateOf: the instance of an Inactive state is built with
\* the scale of the Active ones instead of the default.
StopStateOfNoDefault(sorted_stops, stop_id) ==
  IF stop_id \notin DOMAIN sorted_stops
    THEN [ state |-> "Inactive",
           inst |-> [ position |-> stops[stop_id].id,
                      color |-> DefaultColor, scale |-> ActiveScale ] ]
    ELSE [ state |-> "Active",
           inst |-> [ position |-> stops[stop_id].id,
                      color |-> sorted_stops[stop_id].color[1],
                      scale |-> ActiveScale ] ]

\* One StopState of feed.rs 155-171.
StopStateOf(sorted_stops, stop_id) ==
  IF stop_id \notin DOMAIN sorted_stops
    THEN [ state |-> "Inactive",
           inst |-> [ position |-> stops[stop_id].id,
                      color |-> DefaultColor, scale |-> DefaultScale ] ]
    ELSE [ state |-> "Active",
           inst |-> [ position |-> stops[stop_id].id,
                      color |-> sorted_stops[stop_id].color[1],
                      scale |-> ActiveScale ] ]

\* Variant of SortStates: the states are left in the order of parent_stops.
SortStatesUnsorted(states) == states

\* stateful_instances.sort() with Ord for StopState (stop.rs 50-63), a stable
\* sort: the Inactive states first, then the Active ones.
SortStates(states) ==
  SelectSeq(states, LAMBDA st : st.state = "Inactive")
    \o SelectSeq(states, LAMBDA st : st.state = "Active")

\* Variant of Instances: a delta, the instances of the Active states only.
InstancesActiveOnly(active) ==
  LET sorted_stops == FirstByStop(SortByTimestamp(active))
      stateful_instances ==
        SelectSeq([ a \in 1..Len(parent_stops) |->
                      StopStateOf(sorted_stops, parent_stops[a]) ],
                  LAMBDA st : st.state = "Active")
  IN [ a \in 1..Len(stateful_instances) |-> stateful_instances[a].inst ]

\* The instances sent for one iteration order of the active sets.
Instances(active) ==
  LET sorted_stops == FirstByStop(SortByTimestamp(active))
      stateful_instances ==
        SortStates([ a \in 1..Len(parent_stops) |->
                       StopStateOf(sorted_stops, parent_stops[a]) ])
  IN [ a \in 1..Len(stateful_instances) |-> stateful_instances[a].inst ]

\* The snapshots the merge of feed.rs 138-177 can produce from the processors.
Snapshots(fs) == { Instances(active) : active \in FlatValues(fs, NumFeeds) }

\* --------------------------------------------------------- served messages

\* What a message says about trip t: nothing, or the trip stopped at platform
\* A1 of station A, or stopped at station B (event timestamp vts).
Report(t, where, vts) ==
  IF where = "A1"
    THEN << TU(t, << "A1", "B" >>), Veh(t, "A1", "STOPPED_AT", vts) >>
  ELSE IF where = "B"
    THEN << Veh(t, "B", "STOPPED_AT", vts), TU(t, << "B" >>) >>
  ELSE << >>

\* Trip t01 serves both stations, the other trips station B only.
Places(t) == IF t = "t01" THEN { "none", "A1", "B" } ELSE { "none", "B" }

\* The messages the endpoints serve to the manager.
MgrMsgs ==
  { FeedMessage(T, Report("t01", w1, v1) \o Report("t02", w2, v2))
    : T \in 0..MaxTs, w1 \in Places("t01"), w2 \in Places("t02"),
      v1 \in 1..MaxVts, v2 \in 1..MaxVts }

\* The messages served to a processor driven directly: the vehicle positions
\* carry the time of the message.
ProcMsgs ==
  { FeedMessage(T, Report("t01", w1, T) \o Report("t02", w2, T))
    : T \in 0..ProcMaxTs, w1 \in Places("t01"), w2 \in Places("t02") }

\* Further shapes of what a message says about trip t: the trip stopped at
\* B9, a stop the static collection does not know (such as R60S, feed.rs 248),
\* on its way to station B.
ShapeReport(t, where, vts) ==
  IF where = "B9"
    THEN << Veh(t, "B9", "STOPPED_AT", vts), TU(t, << "B" >>) >>
  ELSE Report(t, where, vts)

\* More shapes: the trip stopped at B with no trip update; stopped at A1 while
\* its trip update starts at B and goes on to A1; stopped at B with an empty
\* trip update, or with one that starts at the unknown stop B9; and two
\* vehicle positions of the trip, at platform A1 and at its station A.
OddReport(t, shape, vts) ==
  IF shape = "no-update"
    THEN << Veh(t, "B", "STOPPED_AT", vts) >>
  ELSE IF shape = "behind"
    THEN << Veh(t, "A1", "STOPPED_AT", vts), TU(t, << "B", "A1" >>) >>
  ELSE IF shape = "empty-update"
    THEN << TU(t, << >>), Veh(t, "B", "STOPPED_AT", vts) >>
  ELSE IF shape = "unknown-first"
    THEN << TU(t, << "B9", "B" >>), Veh(t, "B", "STOPPED_AT", vts) >>
  ELSE IF shape = "twice"
    THEN << TU(t, << "A1" >>), Veh(t, "A1", "STOPPED_AT", vts),
            Veh(t, "A", "STOPPED_AT", vts + 1) >>
  ELSE << >>

OddShapes == { "no-update", "behind", "empty-update", "unknown-first", "twice" }

Shapes(t) == Places(t) \cup { "B9" }

\* Messages of every shape about trip t01 and about trip t03, whose route the
\* route lookup does not know; messages of the odd shapes about trip t01;
\* messages with trip t02 stopped at station B, trip t01 there or absent; and
\* messages without header timestamp.
ShapeMsgs ==
  { FeedMessage(T, ShapeReport("t01", w1, T) \o ShapeReport("t03", w3, T))
    : T \in 0..ShapeMaxTs, w1 \in Shapes("t01"), w3 \in Shapes("t03") }
    \cup { FeedMessage(T, OddReport("t01", shape, T))
           : T \in 0..ShapeMaxTs, shape \in OddShapes }
    \cup { FeedMessage(T, Report("t01", w1, T) \o Report("t02", "B", T))
           : T \in 0..ShapeMaxTs, w1 \in { "none", "B" } }
    \cup { UntimedMessage(Report("t01", w1, 1)) : w1 \in { "none", "B" } }

\* A message reporting the first k trips stopped at station A.
RECURSIVE BulkEntities(_)
BulkEntities(k) ==
  IF k = 0 THEN << >>
  ELSE BulkEntities(k - 1)
         \o << TU(TripNames[k], << "A" >>), Veh(TripNames[k], "A", "STOPPED_AT", 1) >>

BulkMsgs ==
  { FeedMessage(T, BulkEntities(k)) : T \in 0..MaxTs, k \in { 0, 1, BulkTrips } }

\* ------------------------------------------------------------------- state

VARIABLES
  feeds,      \* FeedManager.feeds: one FeedProcessor per feed
  feed_idx,   \* FeedManager.feed_idx
  tx,         \* the channel to the display, seen through the last value sent
  pc,         \* position of FeedManager::update: "idle", "loop", "end", or
              \* "panicked" once a panic has ended the thread
  batch,      \* upper end of the range of the batch loop
  i,          \* iterations of the batch loop done in this tick
  tick,       \* history of the running tick
  selected,   \* history: the feeds selected by the last NumFeeds ticks
  hist,       \* history of the calls made directly on processor 0
  rx,         \* the snapshots sent and not yet received, oldest first (kept
              \* where the display runs, empty elsewhere)
  displayed   \* the snapshot the display shows, if any

vars == << feeds, feed_idx, tx, pc, batch, i, tick, selected, hist, rx, displayed >>

\* FeedManager::new (feed.rs 95-106)
NewProcessor ==
  [ fetched_at |-> 0, queue |-> << >>,
    active_stops |-> EmptyMap, active_stops_current |-> {} ]

NoTick ==
  [ feed |-> 0, n |-> 0, applied |-> 0, published |-> 0, fetched |-> << >>,
    error |-> "none" ]

\* No call made yet.  call: the last call; stale: its message was no newer
\* than the last accepted one; new_len: how many operations the last fetch
\* pushed; pending: the operations pushed and not yet applied, oldest first;
\* applied_op, oldest: the operation the last update applied and the oldest
\* pending one at that time; last: the survivors (trip -> station) of the
\* last accepted message; moved: the trips it reports at another station than
\* the accepted message before it, with their new station; lastop: for each
\* trip, the kind of the operation enqueued last; header: the header of the
\* message of the last call, when that was a fetch.
NoHist ==
  [ call |-> "none", stale |-> FALSE, new_len |-> 0, pending |-> << >>,
    applied_op |-> None, oldest |-> None, some |-> FALSE, msg |-> None,
    accepted |-> 0, last |-> EmptyMap, moved |-> EmptyMap, lastop |-> EmptyMap,
    header |-> None ]

Init ==
  /\ feeds = [ f \in FEEDS |-> NewProcessor ]
  /\ feed_idx = 0
  /\ tx = None
  /\ pc = "idle"
  /\ batch = 0
  /\ i = 0
  /\ tick = NoTick
  /\ selected = << >>
  /\ hist = NoHist
  /\ rx = << >>
  /\ displayed = None

\* ---------------------------------------------------- FeedManager::update

\* Variant of Batch: the batch is at least two.
BatchMinTwo(n) ==
  LET ceil == (n + BatchDiv - 1) \div BatchDiv
  IN IF ceil >= 2 THEN ceil ELSE 2

\* Variant of Batch: the quotient is rounded down.
BatchFloor(n) ==
  LET floor == n \div BatchDiv
  IN IF floor >= 1 THEN floor ELSE 1

\* batch.ceil().max(1.) as u32 for batch = n as f32 / 10. (feed.rs 133-135);
\* exact for the queue lengths an f32 represents exactly.
Batch(n) ==
  LET ceil == (n + BatchDiv - 1) \div BatchDiv
  IN IF ceil >= 1 THEN ceil ELSE 1

\* Variant of Wrap: the cursor wraps to the second feed.
WrapToOne(idx) == IF idx >= NumFeeds THEN 1 ELSE idx

\* feed.rs 128-130
Wrap(idx) == IF idx >= NumFeeds THEN 0 ELSE idx

LastN(seq) == IF Len(seq) > NumFeeds THEN Tail(seq) ELSE seq

\* feed.rs 127-135: the cursor is wrapped, the batch size is fixed.
TickBegin ==
  /\ pc = "idle"
  /\ feed_idx' = Wrap(feed_idx)
  /\ batch' = Batch(Len(feeds[feed_idx'].queue))
  /\ i' = 0
  /\ pc' = IF batch' > 0 THEN "loop" ELSE "end"
  /\ tick' = [ NoTick EXCEPT !.feed = feed_idx', !.n = Len(feeds[feed_idx'].queue) ]
  /\ selected' = LastN(Append(selected, feed_idx'))
  /\ UNCHANGED << feeds, tx, hist, rx, displayed >>

\* Variant of TickIter: update is called twice after the fetch.
TickIterDrainTwice(Msgs) ==
  /\ pc = "loop"
  /\ LET feed == feeds[feed_idx]
         r == Update(feed)
     IN IF r.some
          THEN /\ feeds' = [ feeds EXCEPT ![feed_idx] = r.proc ]
               /\ \E instances \in Snapshots(feeds') : tx' = Some(instances)
               /\ i' = i + 1
               /\ pc' = IF i' < batch THEN "loop" ELSE "end"
               /\ tick' = [ tick EXCEPT !.applied = @ + 1, !.published = @ + 1 ]
          ELSE /\ \E msg \in Msgs : \E fetched \in Fetch(r.proc, msg) :
                    LET r2 == Update(fetched)
                        r3 == Update(r2.proc)
                    IN
                    /\ feeds' = [ feeds EXCEPT ![feed_idx] = r3.proc ]
                    /\ tick' = [ tick EXCEPT
                                   !.applied = @ + (IF r2.some THEN 1 ELSE 0)
                                                 + (IF r3.some THEN 1 ELSE 0),
                                   !.fetched = Append(@, feed_idx) ]
               /\ pc' = "end"
               /\ UNCHANGED << tx, i >>
  /\ UNCHANGED << feed_idx, batch, selected, hist, rx, displayed >>

\* Variant of TickIter: the fetch and the update after it are made on the
\* first processor, whatever feed is selected.
TickIterFetchFirst(Msgs) ==
  /\ pc = "loop"
  /\ LET feed == feeds[feed_idx]
         r == Update(feed)
     IN IF r.some
          THEN /\ feeds' = [ feeds EXCEPT ![feed_idx] = r.proc ]
               /\ \E instances \in Snapshots(feeds') : tx' = Some(instances)
               /\ i' = i + 1
               /\ pc' = IF i' < batch THEN "loop" ELSE "end"
               /\ tick' = [ tick EXCEPT !.applied = @ + 1, !.published = @ + 1 ]
          ELSE /\ \E msg \in Msgs : \E fetched \in Fetch(feeds[0], msg) :
                    LET r2 == Update(fetched) IN
                    /\ feeds' = [ feeds EXCEPT ![0] = r2.proc ]
                    /\ tick' = [ tick EXCEPT
                                   !.applied = @ + (IF r2.some THEN 1 ELSE 0),
                                   !.fetched = Append(@, feed_idx) ]
               /\ pc' = "end"
               /\ UNCHANGED << tx, i >>
  /\ UNCHANGED << feed_idx, batch, selected, hist, rx, displayed >>

\* Variant of TickIter: when the update after the fetch finds the queue still
\* empty, the feed is fetched and updated once more.
TickIterRefetch(Msgs) ==
  /\ pc = "loop"
  /\ LET feed == feeds[feed_idx]
         r == Update(feed)
     IN IF r.some
          THEN /\ feeds' = [ feeds EXCEPT ![feed_idx] = r.proc ]
               /\ \E instances \in Snapshots(feeds') : tx' = Some(instances)
               /\ i' = i + 1
               /\ pc' = IF i' < batch THEN "loop" ELSE "end"
               /\ tick' = [ tick EXCEPT !.applied = @ + 1, !.published = @ + 1 ]
          ELSE /\ \E msg \in Msgs : \E fetched \in Fetch(r.proc, msg) :
                    LET r2 == Update(fetched) IN
                    IF r2.some
                      THEN /\ feeds' = [ feeds EXCEPT ![feed_idx] = r2.proc ]
                           /\ tick' = [ tick EXCEPT !.applied = @ + 1,
                                                    !.fetched = Append(@, feed_idx) ]
                      ELSE \E again \in Msgs : \E refetched \in Fetch(r2.proc, again) :
                             LET r3 == Update(refetched) IN
                             /\ feeds' = [ feeds EXCEPT ![feed_idx] = r3.proc ]
                             /\ tick' = [ tick EXCEPT
                                            !.applied = @ + (IF r3.some THEN 1 ELSE 0),
                                            !.fetched = @ \o << feed_idx, feed_idx >> ]
               /\ pc' = "end"
               /\ UNCHANGED << tx, i >>
  /\ UNCHANGED << feed_idx, batch, selected, hist, rx, displayed >>

\* feed.rs 136-199: one iteration of the batch loop.  An operation is applied
\* and the merged snapshot is sent, or the queue is empty: the feed is
\* fetched, update is called once more and the loop is left.
TickIter(Msgs) ==
  /\ pc = "loop"
  /\ LET feed == feeds[feed_idx]
         r == Update(feed)
     IN IF r.some
          THEN /\ feeds' = [ feeds EXCEPT ![feed_idx] = r.proc ]
               /\ \E instances \in Snapshots(feeds') : tx' = Some(instances)
               /\ i' = i + 1
               /\ pc' = IF i' < batch THEN "loop" ELSE "end"
               /\ tick' = [ tick EXCEPT !.applied = @ + 1, !.published = @ + 1 ]
          ELSE /\ \E msg \in Msgs : \E fetched \in Fetch(r.proc, msg) :
                    LET r2 == Update(fetched) IN
                    /\ feeds' = [ feeds EXCEPT ![feed_idx] = r2.proc ]
                    /\ tick' = [ tick EXCEPT
                                   !.applied = @ + (IF r2.some THEN 1 ELSE 0),
                                   !.fetched = Append(@, feed_idx) ]
               /\ pc' = "end"
               /\ UNCHANGED << tx, i >>
  /\ UNCHANGED << feed_idx, batch, selected, hist, rx, displayed >>

\* The ways the request of feed.rs 230-231 fails: send() returns an error
\* (timeout, connection failure), or the body is not a FeedMessage.
FetchErrors == { "network", "decode" }

\* feed.rs 194-195 with a failing request: update finds the queue empty, fetch
\* is called, and the unwrap of feed.rs 230 or 231 panics.  The panic unwinds
\* FeedManager::update and ends the thread that runs it.
TickFetchPanics ==
  /\ pc = "loop"
  /\ ~ Update(feeds[feed_idx]).some
  /\ \E error \in FetchErrors :
       tick' = [ tick EXCEPT !.fetched = Append(@, feed_idx), !.error = error ]
  /\ pc' = "panicked"
  /\ UNCHANGED << feeds, feed_idx, tx, batch, i, selected, hist, rx, displayed >>

\* feed.rs 200
TickEnd ==
  /\ pc = "end"
  /\ feed_idx' = feed_idx + 1
  /\ pc' = "idle"
  /\ UNCHANGED << feeds, tx, batch, i, tick, selected, hist, rx, displayed >>

Next == TickBegin \/ TickIter(MgrMsgs) \/ TickFetchPanics \/ TickEnd

Spec == Init /\ [][Next]_vars

\* The manager fed with bulk messages.
NextBulk == TickBegin \/ TickIter(BulkMsgs) \/ TickEnd

SpecBulk == Init /\ [][NextBulk]_vars

\* ------------------------------------------------ the manager, ticks going on

\* The messages served while the progress of the queues is followed: one trip
\* a message, so that a fetch queues the Remove of the trip accepted before
\* and the Add of the other one, and a first message of two trips, one of
\* them of the unknown route.
LiveMsgs ==
  UNION { { FeedMessage(T, Report(t, w, 1)) : T \in 0..MaxTs, w \in Places(t) }
          : t \in { "t01", "t02" } }
    \cup { FeedMessage(1, Report("t01", "B", 1) \o Report("t03", "B", 1)) }

\* The manager whose requests return a message: a fetch that enqueues.
NextLive == TickBegin \/ TickIter(LiveMsgs) \/ TickEnd

\* FeedManager::update is sequential code: a started tick runs its loop
\* iterations and reaches feed.rs 200.  The caller keeps issuing ticks: a
\* manager that is idle is called again.
SpecLive ==
  /\ Init
  /\ [][NextLive]_vars
  /\ WF_vars(TickBegin)
  /\ WF_vars(TickIter(LiveMsgs))
  /\ WF_vars(TickEnd)

\* ------------------------------------------------ the manager and the display

\* The messages served while the display runs: both trips absent, or trip t01
\* stopped at platform A1 and trip t02 at station B.
DisplayMsgs ==
  { FeedMessage(T, Report("t01", w[1], 1) \o Report("t02", w[2], 1))
    : T \in 0..MaxTs, w \in { << "none", "none" >>, << "A1", "B" >> } }

\* One iteration of the batch loop as TickIter, the channel kept: tx.send
\* (feed.rs 179) appends the snapshot to the snapshots not yet received.  The
\* worker is followed while fewer than MaxPending snapshots are pending.
TickIterSend(Msgs) ==
  /\ pc = "loop"
  /\ Len(rx) < MaxPending
  /\ LET feed == feeds[feed_idx]
         r == Update(feed)
     IN IF r.some
          THEN /\ feeds' = [ feeds EXCEPT ![feed_idx] = r.proc ]
               /\ \E instances \in Snapshots(feeds') :
                    /\ tx' = Some(instances)
                    /\ rx' = Append(rx, instances)
               /\ i' = i + 1
               /\ pc' = IF i' < batch THEN "loop" ELSE "end"
               /\ tick' = [ tick EXCEPT !.applied = @ + 1, !.published = @ + 1 ]
          ELSE /\ \E msg \in Msgs : \E fetched \in Fetch(r.proc, msg) :
                    LET r2 == Update(fetched) IN
                    /\ feeds' = [ feeds EXCEPT ![feed_idx] = r2.proc ]
                    /\ tick' = [ tick EXCEPT
                                   !.applied = @ + (IF r2.some THEN 1 ELSE 0),
                                   !.fetched = Append(@, feed_idx) ]
               /\ pc' = "end"
               /\ UNCHANGED << tx, i, rx >>
  /\ UNCHANGED << feed_idx, batch, selected, hist, displayed >>

\* One redraw of the display (main.rs 301-311): try_recv takes the oldest
\* snapshot not yet received, if there is one, and the display shows it.
Redraw ==
  /\ IF rx # << >>
       THEN /\ displayed' = Some(Head(rx))
            /\ rx' = Tail(rx)
       ELSE UNCHANGED << rx, displayed >>
  /\ UNCHANGED << feeds, feed_idx, tx, pc, batch, i, tick, selected, hist >>

NextDisplay == TickBegin \/ TickIterSend(DisplayMsgs) \/ TickEnd \/ Redraw

SpecDisplay == Init /\ [][NextDisplay]_vars

\* ------------------------------------------- a processor driven directly

\* Stations of the survivors of a message, by trip.
Survivors(msg) ==
  LET current_stopped == CurrentStopped(msg)
  IN [ t \in DOMAIN current_stopped |-> current_stopped[t].stop_id ]

\* The trips that survive both messages, at different stations.
Moved(before, after) ==
  LET ts == { t \in DOMAIN before \cap DOMAIN after : before[t] # after[t] }
  IN [ t \in ts |-> after[t] ]

\* The trip of an operation.
TripOf(o) == IF o.op = "Add" THEN o.fe.trip_id ELSE o.trip_id

\* The kind of the operation enqueued last for each trip, after operations
\* ops are pushed.
LastEnqueued(lastop, ops) ==
  LET named == { TripOf(ops[a]) : a \in 1..Len(ops) }
      latest(t) == CHOOSE a \in 1..Len(ops) :
                     /\ TripOf(ops[a]) = t
                     /\ \A b \in (a + 1)..Len(ops) : TripOf(ops[b]) # t
  IN [ t \in DOMAIN lastop \cup named |->
         IF t \in named THEN ops[latest(t)].op ELSE lastop[t] ]

\* fetch is called on processor 0 with a message of Msgs; with remember, the
\* history also keeps the header of the message, the last accepted message
\* and the number of accepted ones.
FetchCall(Msgs, remember) ==
  /\ pc = "idle"
  /\ \E msg \in Msgs : \E fetched \in Fetch(feeds[0], msg) :
       LET new == SubSeq(fetched.queue, Len(feeds[0].queue) + 1, Len(fetched.queue))
           accepted == fetched.fetched_at # feeds[0].fetched_at
       IN /\ feeds' = [ feeds EXCEPT ![0] = fetched ]
          /\ hist' = [ hist EXCEPT
                         !.call = "fetch",
                         !.stale = Timestamp(msg) <= feeds[0].fetched_at,
                         !.new_len = Len(new),
                         !.pending = @ \o new,
                         !.applied_op = None,
                         !.oldest = None,
                         !.some = FALSE,
                         !.last = IF accepted THEN Survivors(msg) ELSE @,
                         !.moved = IF accepted THEN Moved(hist.last, Survivors(msg)) ELSE @,
                         !.lastop = LastEnqueued(@, new),
                         !.header = IF remember THEN Some(msg.header) ELSE @,
                         !.msg = IF remember /\ accepted THEN Some(msg) ELSE @,
                         !.accepted = IF remember /\ accepted THEN @ + 1 ELSE @ ]
  /\ UNCHANGED << feed_idx, tx, pc, batch, i, tick, selected, rx, displayed >>

\* fetch is called on processor 0 with a served message.
CallFetch == FetchCall(ProcMsgs, FALSE)

\* update is called on processor 0.
CallUpdate ==
  /\ pc = "idle"
  /\ LET r == Update(feeds[0])
     IN /\ feeds' = [ feeds EXCEPT ![0] = r.proc ]
        /\ hist' = [ hist EXCEPT
                       !.call = "update",
                       !.stale = FALSE,
                       !.new_len = 0,
                       !.pending = IF @ = << >> THEN @ ELSE Tail(@),
                       !.applied_op = r.op,
                       !.some = r.some,
                       !.header = None,
                       !.oldest = IF hist.pending = << >> THEN None
                                  ELSE Some(Head(hist.pending)) ]
  /\ UNCHANGED << feed_idx, tx, pc, batch, i, tick, selected, rx, displayed >>

NextProc == CallFetch \/ CallUpdate

SpecProc == Init /\ [][NextProc]_vars

\* A processor driven directly with the messages of every shape, the history
\* keeping the last accepted message.
CallFetchShapes == FetchCall(ShapeMsgs, TRUE)

NextShapes == CallFetchShapes \/ CallUpdate

SpecShapes == Init /\ [][NextShapes]_vars

\* ------------------------------------------------------------------ claims

\* The entries of all active sets.
AllEntries(fs) ==
  UNION { { fs[f].active_stops[k] : k \in DOMAIN fs[f].active_stops } : f \in FEEDS }

\* The operations the last fetch on processor 0 pushed.
NewOps ==
  LET q == feeds[0].queue
  IN SubSeq(q, Len(q) - hist.new_len + 1, Len(q))

\* C1: a fetch whose header timestamp is not greater than the last accepted
\* one leaves the queue, the active set, the membership marker and the last
\* accepted timestamp of the processor as they were.
C1_StaleFetchNoOp ==
  [][ (hist'.call = "fetch" /\ hist'.stale) => feeds' = feeds ]_vars

\* A stale message was fetched while operations were queued and a message had
\* been accepted before.
C1_Witness ==
  /\ hist.call = "fetch"
  /\ hist.stale
  /\ feeds[0].fetched_at > 0
  /\ feeds[0].queue # << >>

\* C2: a trip reported at station A by one accepted message and at another
\* station B by the next one has, once the queue is drained, its active entry
\* at B, and the merged snapshot shows B active.
C2_RelocationApplied ==
  \A t \in DOMAIN hist.moved :
    (feeds[0].queue = << >> /\ RouteOf(t) \in DOMAIN routes) =>
      /\ t \in DOMAIN feeds[0].active_stops
      /\ feeds[0].active_stops[t].stop_id = hist.moved[t]
      /\ \A instances \in Snapshots(feeds) :
           \E a \in 1..Len(instances) :
             /\ instances[a].position = hist.moved[t]
             /\ instances[a].scale = ActiveScale

\* C3: every operation applied in a tick is followed by a publish in that
\* tick, and at the end of a tick that applied an operation the last
\* published snapshot is a merge of the active sets as they stand.
C3_PublishAfterEveryOp ==
  /\ tick.published = tick.applied
  /\ (pc = "end" /\ tick.applied > 0) =>
       (tx # None /\ tx[1] \in Snapshots(feeds))

\* C4: no active set holds two entries with the same trip id.
C4_OneEntryPerTrip ==
  \A f \in FEEDS :
    \A k1, k2 \in DOMAIN feeds[f].active_stops :
      feeds[f].active_stops[k1].trip_id = feeds[f].active_stops[k2].trip_id
        => k1 = k2

\* An Add was applied to an active set that held another trip.
C4_Witness ==
  /\ hist.call = "update"
  /\ hist.applied_op # None
  /\ hist.applied_op[1].op = "Add"
  /\ Cardinality(DOMAIN feeds[0].active_stops) = 2

\* C5: among the operations one fetch call pushes, every Remove comes before
\* every Add.
C5_RemovesBeforeAdds ==
  hist.call = "fetch" =>
    \A a, b \in 1..Len(NewOps) :
      (NewOps[a].op = "Add" /\ NewOps[b].op = "Remove") => b < a

\* One fetch pushed a Remove and an Add.
C5_Witness ==
  /\ hist.call = "fetch"
  /\ \E a, b \in 1..Len(NewOps) : NewOps[a].op = "Remove" /\ NewOps[b].op = "Add"

\* C6: update applies the operations in the order fetch pushed them: the
\* operation an update applies is the oldest one pushed and not yet applied.
C6_Fifo == hist.call = "update" => hist.applied_op = hist.oldest

\* An update applied an operation while two more, pushed later, were pending.
C6_Witness ==
  /\ hist.call = "update"
  /\ hist.applied_op # None
  /\ Len(hist.pending) >= 2
  /\ hist.pending[Len(hist.pending)] # hist.applied_op[1]

\* Station s has entries with different event timestamps, and the record of s
\* in the snapshot is Active with the color of an entry of s that no other
\* entry of s is more recent than.
RecencyAt(instances, fs, s) ==
  LET at == { e \in AllEntries(fs) : e.stop_id = s }
  IN (\E e1, e2 \in at : e1.timestamp < e2.timestamp) =>
       \E a \in 1..Len(instances) :
         /\ instances[a].position = s
         /\ instances[a].scale = ActiveScale
         /\ \E e2 \in at :
              /\ \A e1 \in at : e1.timestamp <= e2.timestamp
              /\ instances[a].color = e2.color[1]

\* C7: when the active sets hold entries for one station with event
\* timestamps t1 < t2, the snapshot published from them shows the station
\* Active with the color of the entry with timestamp t2.
C7_RecencyWins ==
  [][ tick'.published > tick.published =>
        \A s \in StopIds : RecencyAt(tx'[1], feeds', s) ]_vars

\* A snapshot was just published while two feeds hold entries of different
\* colors and timestamps for one station.
C7_Witness ==
  /\ tick.published > 0
  /\ \E k1 \in DOMAIN feeds[0].active_stops, k2 \in DOMAIN feeds[1].active_stops :
       LET e1 == feeds[0].active_stops[k1]
           e2 == feeds[1].active_stops[k2]
       IN /\ e1.stop_id = e2.stop_id
          /\ e1.timestamp < e2.timestamp
          /\ e1.color # e2.color

\* C8: a tick that finds n >= 1 operations queued on the selected feed applies
\* exactly max(1, ceil(n / 10)) of them.
C8_BatchFloor ==
  (pc = "end" /\ tick.n >= 1) =>
    /\ tick.applied >= 1
    /\ tick.applied * 10 >= tick.n
    /\ (tick.applied = 1 \/ (tick.applied - 1) * 10 < tick.n)
    /\ Len(feeds[tick.feed].queue) + tick.applied = tick.n

\* A tick found eleven operations queued and applied two.
C8_Witness == pc = "end" /\ tick.n = 11 /\ tick.applied = 2 /\ Len(feeds[tick.feed].queue) = 9

\* C9: a tick works on one feed, consecutive ticks select consecutive feeds
\* of the registry with wrap-around, any NumFeeds consecutive ticks select
\* every feed once, and the cursor is in range whenever it indexes the feeds.
C9_RoundRobin ==
  [][ /\ pc' # "idle" => feed_idx' \in FEEDS
      /\ \A f \in FEEDS : feeds'[f] # feeds[f] => (pc # "idle" /\ f = tick.feed)
      /\ \A k \in 1..(Len(selected') - 1) :
           selected'[k + 1] = (selected'[k] + 1) % NumFeeds
      /\ Len(selected') = NumFeeds =>
           { selected'[k] : k \in 1..NumFeeds } = FEEDS ]_vars

\* The cursor wrapped around: the last feed of the registry was selected and
\* then the first one again.
C9_Witness ==
  /\ pc = "end"
  /\ Len(selected) = NumFeeds
  /\ selected[NumFeeds] = 0
  /\ selected[NumFeeds - 1] = NumFeeds - 1

\* C10: a tick fetches at most once, and only the selected feed.
C10_OneFetchPerTick ==
  /\ Len(tick.fetched) <= 1
  /\ \A k \in 1..Len(tick.fetched) : tick.fetched[k] = tick.feed

\* A tick fetched a message that queued more than ten operations.
C10_Witness ==
  /\ pc = "end"
  /\ Len(tick.fetched) = 1
  /\ Len(feeds[tick.feed].queue) >= 10

\* The vehicle positions of message msg that report trip t stopped at raw
\* stop raw.
StoppedAt(msg, t, raw) ==
  \E a \in 1..Len(msg.entity) :
    /\ msg.entity[a].vehicle # None
    /\ msg.entity[a].vehicle[1].trip = Some([ trip_id |-> t, route_id |-> RouteOf(t) ])
    /\ msg.entity[a].vehicle[1].stop_id = Some(raw)
    /\ msg.entity[a].vehicle[1].current_status = "STOPPED_AT"

\* The trip updates of message msg whose first stop_time_update of trip t
\* names raw stop raw.
AnchoredAt(msg, t, raw) ==
  \E a \in 1..Len(msg.entity) :
    /\ msg.entity[a].trip_update # None
    /\ msg.entity[a].trip_update[1].trip.trip_id = t
    /\ msg.entity[a].trip_update[1].stop_time_update # << >>
    /\ msg.entity[a].trip_update[1].stop_time_update[1].stop_id = raw

\* The record of station s in a snapshot.
RecordOf(instances, s) ==
  { instances[a] : a \in { b \in 1..Len(instances) : instances[b].position = s } }

\* The first accepted message of processor 0 reports trip t on a known route
\* anchored and stopped at parentless station s, and no other trip of a known
\* route stopped at a stop of s, and the queue is drained.
FirstFetchDrained(t, s) ==
  /\ hist.accepted = 1
  /\ hist.msg # None
  /\ \A u \in { "t01", "t02", "t03" } \ { t } : \A raw \in DOMAIN stops :
       (RouteOf(u) \in DOMAIN routes /\ StaticStopId(stops[raw]) = s)
         => ~ StoppedAt(hist.msg[1], u, raw)
  /\ stops[s].parent = None
  /\ RouteOf(t) \in DOMAIN routes
  /\ AnchoredAt(hist.msg[1], t, s)
  /\ StoppedAt(hist.msg[1], t, s)
  /\ feeds[0].queue = << >>

\* C11: when the first accepted message of a processor reports a trip of a
\* known route anchored at a parentless station and stopped at it, and no
\* other trip there, then once the queue is drained every merge gives that
\* station an Active record with the color of the route.
C11_EndToEndActive ==
  \A t \in { "t01", "t02", "t03" } : \A s \in StopIds :
    FirstFetchDrained(t, s) =>
      \A instances \in Snapshots(feeds) :
        RecordOf(instances, s) =
          { [ position |-> s, color |-> routes[RouteOf(t)], scale |-> ActiveScale ] }

C11_Witness ==
  /\ FirstFetchDrained("t01", "B")
  /\ hist.call = "update"
  /\ \E instances \in Snapshots(feeds) :
       [ position |-> "B", color |-> "red", scale |-> ActiveScale ]
         \in RecordOf(instances, "B")

\* C12: when the request of a fetch fails on the network, the tick goes on to
\* its end with the processors and the last snapshot as they were, so that
\* the next ticks visit the other feeds and fetch this feed again.
C12_NetworkFailureSurvived ==
  [][(tick'.error = "network" /\ tick.error # "network")
       => (pc' = "end" /\ feeds' = feeds /\ tx' = tx)]_vars

\* C13: when the payload of a fetch cannot be decoded, the fetch changes
\* neither the active set, the queue, the membership marker nor the last
\* accepted timestamp of the feed, and the tick goes on to its end, so that
\* the feed is fetched again on its next visit.
C13_DecodeFailureNoOp ==
  [][(tick'.error = "decode" /\ tick.error # "decode")
       => (feeds'[tick'.feed] = feeds[tick'.feed] /\ pc' = "end")]_vars

\* The raw stop ids a message can name.
RawStopIds == StopIds \cup { "B9" }

\* The operations at the end of queue q that the last fetch pushed, n of them.
Pushed(q, n) == { q[a] : a \in (Len(q) - n + 1)..Len(q) }

\* Message msg reports trip t stopped at stops the static collection does not
\* know, and only there.
StoppedAtUnknownOnly(msg, t) ==
  /\ \E raw \in RawStopIds \ DOMAIN stops : StoppedAt(msg, t, raw)
  /\ \A raw \in DOMAIN stops : ~ StoppedAt(msg, t, raw)

\* C14: a fetch that accepts a message reporting a trip stopped at a stop the
\* static collection does not know completes (the message becomes the last
\* accepted one) and that vehicle position queues no operation: no Add of the
\* trip is pushed, and no operation at all for a trip that was not a member.
C14_UnknownStopIgnored ==
  [][(hist'.call = "fetch" /\ ~ hist'.stale)
       => \A t \in { "t01", "t03" } :
            StoppedAtUnknownOnly(hist'.msg[1], t)
              => /\ feeds'[0].fetched_at = Timestamp(hist'.msg[1])
                 /\ \A o \in Pushed(feeds'[0].queue, hist'.new_len) :
                      /\ ~ (o.op = "Add" /\ o.fe.trip_id = t)
                      /\ t \notin feeds[0].active_stops_current => TripOf(o) # t
                 /\ t \notin feeds'[0].active_stops_current]_vars

C14_Witness ==
  /\ hist.call = "fetch"
  /\ ~ hist.stale
  /\ StoppedAtUnknownOnly(hist.msg[1], "t01")
  /\ hist.new_len = 0
  /\ feeds[0].queue = << >>
  /\ feeds[0].fetched_at = Timestamp(hist.msg[1])

\* C15: when update pops an Add whose route id the route lookup does not
\* know, the operation is consumed, the active set (and the rest of the
\* processor) stays as it was, and update still returns Some(()).
C15_UnknownRouteDiscarded ==
  [][(/\ hist'.call = "update"
      /\ feeds[0].queue # << >>
      /\ Head(feeds[0].queue).op = "Add"
      /\ Head(feeds[0].queue).fe.route_id \notin DOMAIN routes)
       => /\ feeds'[0] = [ feeds[0] EXCEPT !.queue = Tail(@) ]
          /\ hist'.some
          /\ hist'.applied_op = Some(Head(feeds[0].queue))]_vars

C15_Witness ==
  /\ hist.call = "update"
  /\ hist.some
  /\ hist.applied_op # None
  /\ hist.applied_op[1].op = "Add"
  /\ hist.applied_op[1].fe.route_id \notin DOMAIN routes
  /\ "t03" \notin DOMAIN feeds[0].active_stops
  /\ "t03" \in feeds[0].active_stops_current

\* The stations: the stops without a parent.
Stations == { s \in StopIds : stops[s].parent = None }

\* The canonical id of a raw stop id the static collection knows.
Canonical(raw) ==
  CHOOSE s \in Stations : s = raw \/ stops[raw].parent = Some(s)

\* The station ids held by processor p: in its active entries and in the Adds
\* of its queue.
HeldStopIds(p) ==
  { p.active_stops[k].stop_id : k \in DOMAIN p.active_stops }
    \cup { p.queue[a].fe.stop_id : a \in { b \in 1..Len(p.queue) : p.queue[b].op = "Add" } }

\* C16: every Add a fetch pushes carries the canonical id (the parent if any,
\* else the own id) of a raw stop id the message reports the trip stopped at;
\* every station id a processor holds is a parentless station; and every
\* snapshot the merge can produce has records only for parentless stations,
\* never for a raw platform id.
C16_CanonicalIds ==
  [][/\ (hist'.call = "fetch" /\ ~ hist'.stale)
          => \A o \in Pushed(feeds'[0].queue, hist'.new_len) :
               o.op = "Add" =>
                 \E raw \in DOMAIN stops :
                   /\ StoppedAt(hist'.msg[1], o.fe.trip_id, raw)
                   /\ o.fe.stop_id = Canonical(raw)
     /\ \A f \in FEEDS : HeldStopIds(feeds'[f]) \subseteq Stations
     /\ \A instances \in Snapshots(feeds') :
          \A a \in 1..Len(instances) : instances[a].position \in Stations]_vars

C16_Witness ==
  /\ hist.msg # None
  /\ StoppedAt(hist.msg[1], "t01", "A1")
  /\ "t01" \in DOMAIN feeds[0].active_stops
  /\ feeds[0].active_stops["t01"].stop_id = "A"
  /\ feeds[0].active_stops["t01"].timestamp = Timestamp(hist.msg[1])
  /\ \E instances \in Snapshots(feeds) :
       RecordOf(instances, "A") = { [ position |-> "A", color |-> "red", scale |-> ActiveScale ] }

\* C17: every snapshot sent is a complete rebuild: it has exactly one record
\* for each parentless station and no other record, so every snapshot has the
\* same length.
C17_CompleteRebuild ==
  tx # None =>
    /\ Len(tx[1]) = Cardinality(Stations)
    /\ \A s \in Stations : Cardinality({ a \in 1..Len(tx[1]) : tx[1][a].position = s }) = 1

C17_Witness ==
  /\ tick.published > 0
  /\ Len(tx[1]) = 2
  /\ RecordOf(tx[1], "A") =
       { [ position |-> "A", color |-> DefaultColor, scale |-> DefaultScale ] }
  /\ RecordOf(tx[1], "B") =
       { [ position |-> "B", color |-> "blue", scale |-> ActiveScale ] }

\* The entries the processors hold for station s.
EntriesAt(fs, s) == { e \in AllEntries(fs) : e.stop_id = s }

\* C18: in a snapshot sent for the processors as they are at the merge, the
\* record of a station is Active, with the color of an entry held for the
\* station and the display scale, exactly when some processor holds an entry
\* for the station; otherwise it is Inactive, with the default color and
\* scale.
C18_ActiveIffHeld ==
  [][tick'.published > tick.published
       => \A s \in Stations :
            IF EntriesAt(feeds', s) = {}
              THEN RecordOf(tx'[1], s) =
                     { [ position |-> s, color |-> DefaultColor, scale |-> DefaultScale ] }
              ELSE \E e \in EntriesAt(feeds', s) :
                     RecordOf(tx'[1], s) =
                       { [ position |-> s, color |-> e.color[1], scale |-> ActiveScale ] }]_vars

C18_Witness ==
  /\ tick.published > 0
  /\ EntriesAt(feeds, "A") # {}
  /\ EntriesAt(feeds, "B") = {}
  /\ RecordOf(tx[1], "A") = { [ position |-> "A", color |-> "red", scale |-> ActiveScale ] }
  /\ RecordOf(tx[1], "B") =
       { [ position |-> "B", color |-> DefaultColor, scale |-> DefaultScale ] }

\* C19: in every snapshot sent, all the Inactive records (default scale) come
\* before all the Active records (display scale).
C19_InactiveFirst ==
  tx # None =>
    \A a, b \in 1..Len(tx[1]) :
      (tx[1][a].scale = ActiveScale /\ tx[1][b].scale = DefaultScale) => b < a

C19_Witness ==
  /\ tx # None
  /\ Len(tx[1]) = 2
  /\ tx[1][1] = [ position |-> "B", color |-> DefaultColor, scale |-> DefaultScale ]
  /\ tx[1][2].position = "A"
  /\ tx[1][2].scale = ActiveScale

\* C20: a step of a tick changes the processor of the selected feed only:
\* every other processor stays as it was, also in the step that fetches.
C20_OnlySelectedFeed ==
  [][/\ \A f \in FEEDS : feeds'[f] # feeds[f] => (pc = "loop" /\ f = feed_idx)
     /\ Len(tick'.fetched) > Len(tick.fetched)
          => \A f \in FEEDS \ { feed_idx } : feeds'[f] = feeds[f]]_vars

C20_Witness ==
  /\ pc = "end"
  /\ feed_idx = 1
  /\ tick.fetched = << 1 >>
  /\ tick.applied = 1
  /\ feeds[1].active_stops # EmptyMap
  /\ feeds[0].active_stops # EmptyMap
  /\ feeds[0].queue # << >>

\* C21: a redraw that finds snapshots pending leaves the display showing the
\* snapshot sent last, and no older snapshot pending.
C21_DisplaysLatest ==
  [][(rx # << >> /\ rx' # rx /\ Len(rx') < Len(rx))
       => (displayed' = tx /\ rx' = << >>)]_vars

\* The trips the messages name.
Trips == { "t01", "t02", "t03" }

\* The canonical stations of the raw stops message msg reports trip t
\* stopped at.
StoppedStations(msg, t) ==
  { Canonical(raw) : raw \in { r \in DOMAIN stops : StoppedAt(msg, t, r) } }

\* The canonical stations the trip updates of message msg anchor trip t at.
Anchors(msg, t) ==
  { Canonical(raw) : raw \in { r \in DOMAIN stops : AnchoredAt(msg, t, r) } }

\* The last call was a fetch that accepted its message.
Accepted == hist.call = "fetch" /\ ~ hist.stale

\* C22: after a fetch accepts a message, a trip is a survivor (a member, and
\* the trip of a pushed Add) only if the message reports it stopped at a
\* station that is also the anchor of one of its trip updates; and the Add
\* carries such a station.
C22_SurvivorsAnchored ==
  [][Accepted'
       => /\ \A t \in feeds'[0].active_stops_current :
               StoppedStations(hist'.msg[1], t) \cap Anchors(hist'.msg[1], t) # {}
          /\ \A o \in Pushed(feeds'[0].queue, hist'.new_len) :
               o.op = "Add" =>
                 o.fe.stop_id \in StoppedStations(hist'.msg[1], o.fe.trip_id)
                                    \cap Anchors(hist'.msg[1], o.fe.trip_id)]_vars

C22_Witness ==
  /\ Accepted
  /\ StoppedAt(hist.msg[1], "t01", "A1")
  /\ AnchoredAt(hist.msg[1], "t01", "B")
  /\ "t01" \notin feeds[0].active_stops_current
  /\ hist.new_len = 0

\* The survivor trips of message msg: the trips reported stopped at a station
\* that one of their trip updates anchors them at.
SurvivorTrips(msg) ==
  { t \in Trips : StoppedStations(msg, t) \cap Anchors(msg, t) # {} }

\* The trips of the Removes, and of the Adds, among operations ops.
RemoveTrips(ops) == { o.trip_id : o \in { x \in ops : x.op = "Remove" } }

AddTrips(ops) == { o.fe.trip_id : o \in { x \in ops : x.op = "Add" } }

\* C23: after a fetch accepts a message, the membership marker is the set of
\* the survivor trips of the message; the fetch has pushed a Remove for
\* exactly the members that are not survivors and an Add for exactly the
\* survivors that were not members, and nothing else.
C23_MembershipDiff ==
  [][Accepted'
       => LET survivors == SurvivorTrips(hist'.msg[1])
              before == feeds[0].active_stops_current
              pushed == Pushed(feeds'[0].queue, hist'.new_len)
          IN /\ feeds'[0].active_stops_current = survivors
             /\ RemoveTrips(pushed) = before \ survivors
             /\ AddTrips(pushed) = survivors \ before
             /\ hist'.new_len = Cardinality(before \ survivors)
                                  + Cardinality(survivors \ before)]_vars

C23_Witness ==
  /\ Accepted
  /\ RemoveTrips(Pushed(feeds[0].queue, hist.new_len)) = { "t01" }
  /\ AddTrips(Pushed(feeds[0].queue, hist.new_len)) = { "t03" }
  /\ feeds[0].active_stops_current = { "t03" }

\* C24: in a tick that finds the queue of the selected feed empty, nothing is
\* applied before the fetch; the step that fetches ends the work of the tick;
\* and at the end of the tick the feed was fetched once and at most one
\* operation was applied, exactly one when operations are left in the queue.
C24_FetchThenOneDrain ==
  tick.n = 0 =>
    /\ pc = "loop" => (tick.fetched = << >> /\ tick.applied = 0)
    /\ tick.fetched # << >> => pc # "loop"
    /\ pc = "end" =>
         /\ tick.fetched = << tick.feed >>
         /\ tick.applied <= 1
         /\ feeds[tick.feed].queue # << >> => tick.applied = 1

C24_Witness ==
  /\ tick.n = 0
  /\ pc = "end"
  /\ tick.fetched = << tick.feed >>
  /\ tick.applied = 1
  /\ Len(feeds[tick.feed].queue) = BulkTrips - 1

\* C25: for the last accepted message, latest_trip_stop has an entry for a
\* trip exactly when a trip update of the trip has a first stop_time_update
\* whose stop the static collection knows, and the entry is the canonical
\* station of that first stop, whatever the later stop_time_updates; a trip
\* whose trip updates are empty or start at an unknown stop has no entry and
\* is no member after the fetch.
C25_AnchorFromFirst ==
  hist.msg # None =>
    \A t \in Trips :
      LET latest == LatestTripStop(hist.msg[1].entity)
          anchors == Anchors(hist.msg[1], t)
      IN /\ t \in DOMAIN latest <=> anchors # {}
         /\ t \in DOMAIN latest => anchors = { latest[t] }
         /\ (Accepted /\ anchors = {}) => t \notin feeds[0].active_stops_current

C25_Witness ==
  /\ Accepted
  /\ AnchoredAt(hist.msg[1], "t01", "B9")
  /\ StoppedAt(hist.msg[1], "t01", "B")
  /\ LatestTripStop(hist.msg[1].entity) = EmptyMap
  /\ "t01" \notin feeds[0].active_stops_current

\* C26: the operations one fetch pushes are for pairwise different trips: at
\* most one Add for a trip, however many vehicle positions report it
\* stopped, and never a Remove and an Add for the same trip.
C26_OneOpPerTrip ==
  [][hist'.call = "fetch"
       => LET q == feeds'[0].queue
              new == (Len(q) - hist'.new_len + 1)..Len(q)
          IN \A a, b \in new : a # b => TripOf(q[a]) # TripOf(q[b])]_vars

C26_Witness ==
  /\ Accepted
  /\ StoppedAt(hist.msg[1], "t01", "A1")
  /\ StoppedAt(hist.msg[1], "t01", "A")
  /\ hist.new_len = 1
  /\ feeds[0].queue # << >>
  /\ LET o == feeds[0].queue[Len(feeds[0].queue)]
     IN /\ o.op = "Add"
        /\ o.fe.trip_id = "t01"
        /\ o.fe.stop_id = "A"
        /\ o.fe.timestamp = Timestamp(hist.msg[1]) + 1

\* C27: when update pops Remove(trip id), the entry of the trip is gone from
\* the active set and every other entry is as it was; when the trip had no
\* entry the active set is unchanged; in both cases the operation is consumed,
\* nothing else changes, and update returns Some(()).
C27_RemoveApplied ==
  [][(/\ hist'.call = "update"
      /\ feeds[0].queue # << >>
      /\ Head(feeds[0].queue).op = "Remove")
       => LET t == Head(feeds[0].queue).trip_id
              before == feeds[0].active_stops
              after == feeds'[0].active_stops
          IN /\ DOMAIN after = DOMAIN before \ { t }
             /\ \A k \in DOMAIN after : after[k] = before[k]
             /\ t \notin DOMAIN before => after = before
             /\ feeds'[0] = [ feeds[0] EXCEPT !.queue = Tail(@), !.active_stops = after ]
             /\ hist'.some]_vars

\* A Remove of a trip without entry was applied while another trip has one.
C27_Witness ==
  /\ hist.call = "update"
  /\ hist.some
  /\ hist.applied_op = Some([ op |-> "Remove", trip_id |-> "t03" ])
  /\ DOMAIN feeds[0].active_stops = { "t01" }

\* C28: update returns Some(()) exactly when the queue was not empty at the
\* call, and then it has popped one operation; on an empty queue it returns
\* None and leaves the processor as it was.
C28_AppliedIffNonEmpty ==
  [][hist'.call = "update"
       => /\ hist'.some <=> feeds[0].queue # << >>
          /\ feeds[0].queue = << >> => (feeds' = feeds /\ hist'.applied_op = None)
          /\ feeds[0].queue # << >> => feeds'[0].queue = Tail(feeds[0].queue)]_vars

C28_Witness ==
  /\ hist.call = "update"
  /\ ~ hist.some
  /\ feeds[0].queue = << >>
  /\ feeds[0].active_stops # EmptyMap
  /\ feeds[0].active_stops_current # {}
  /\ feeds[0].fetched_at > 0

\* C29: the last accepted timestamp of a processor never decreases; a fetch
\* that accepts a message sets it to the header timestamp of the message,
\* which is greater than the one before; every other call leaves it alone.
C29_TimestampMonotone ==
  [][/\ \A f \in FEEDS : feeds'[f].fetched_at >= feeds[f].fetched_at
     /\ Accepted'
          => /\ feeds'[0].fetched_at = Timestamp(hist'.msg[1])
             /\ feeds'[0].fetched_at > feeds[0].fetched_at
     /\ ~ Accepted' => feeds'[0].fetched_at = feeds[0].fetched_at]_vars

C29_Witness ==
  /\ Accepted
  /\ hist.accepted = 2
  /\ feeds[0].fetched_at = 2
  /\ Timestamp(hist.msg[1]) = 2

\* C30: every entry of every active set has a color, the color of its route,
\* which the route lookup knows; so every merge of the active sets reads the
\* colors it needs and yields instances with a color each.
C30_EntriesColored ==
  /\ \A e \in AllEntries(feeds) :
       /\ e.color # None
       /\ e.route_id \in DOMAIN routes
       /\ e.color = Some(routes[e.route_id])
  /\ \A instances \in Snapshots(feeds) : \A a \in 1..Len(instances) :
       instances[a].color \in { DefaultColor } \cup { routes[r] : r \in DOMAIN routes }

\* The trip of a known route has a colored entry while the trip of the unknown
\* route is a member without entry.
C30_Witness ==
  /\ feeds[0].queue = << >>
  /\ "t03" \in feeds[0].active_stops_current
  /\ DOMAIN feeds[0].active_stops = { "t01" }
  /\ feeds[0].active_stops["t01"].color = Some("red")
  /\ hist.accepted = 1

\* C31: a tick that finds n >= 1 operations queued on the selected feed runs
\* a batch of at most n iterations and does not fetch; a tick that finds the
\* queue empty has fetched the selected feed when it ends.
C31_FetchIffEmpty ==
  /\ (pc \in { "loop", "end" } /\ tick.n >= 1)
       => (batch <= tick.n /\ i <= tick.n /\ tick.fetched = << >>)
  /\ (pc = "end" /\ tick.n = 0) => tick.fetched # << >>
  /\ (pc = "end" /\ tick.fetched # << >>) => tick.n = 0

\* A tick that found one operation queued has applied it without fetching.
C31_Witness ==
  /\ pc = "end"
  /\ tick.n = 1
  /\ tick.applied = 1
  /\ tick.fetched = << >>
  /\ feeds[tick.feed].queue = << >>

\* The kind of the operation enqueued for the trip of q[a] before q[a]:
\* among the operations q[lo..a-1] of the same fetch, else in lastop; "none"
\* when there is none.
KindBefore(lastop, q, lo, a) ==
  LET t == TripOf(q[a])
      earlier == { b \in lo..(a - 1) : TripOf(q[b]) = t }
  IN IF earlier # {}
       THEN q[CHOOSE b \in earlier : \A c \in earlier : c <= b].op
     ELSE IF t \in DOMAIN lastop THEN lastop[t]
     ELSE "none"

\* C32: the operations enqueued for a trip alternate, starting with an Add: an
\* Add is pushed only when no operation or a Remove was enqueued last for the
\* trip, a Remove only when an Add was; and the membership marker holds the
\* trips for which the operation enqueued last is an Add.
C32_OpsAlternate ==
  [][hist'.call = "fetch"
       => LET q == feeds'[0].queue
              lo == Len(q) - hist'.new_len + 1
          IN /\ \A a \in lo..Len(q) :
                  IF q[a].op = "Add"
                    THEN KindBefore(hist.lastop, q, lo, a) \in { "none", "Remove" }
                    ELSE KindBefore(hist.lastop, q, lo, a) = "Add"
             /\ feeds'[0].active_stops_current =
                  { t \in DOMAIN hist'.lastop : hist'.lastop[t] = "Add" }]_vars

\* Three fetches have enqueued an Add, a Remove and an Add again for a trip.
C32_Witness ==
  /\ hist.call = "fetch"
  /\ hist.new_len = 1
  /\ Len(feeds[0].queue) = 3
  /\ feeds[0].queue[1].op = "Add"
  /\ feeds[0].queue[1].fe.trip_id = "t01"
  /\ feeds[0].queue[2] = [ op |-> "Remove", trip_id |-> "t01" ]
  /\ feeds[0].queue[3].op = "Add"
  /\ feeds[0].queue[3].fe.trip_id = "t01"
  /\ feeds[0].active_stops_current = { "t01" }

\* C33: whenever the queue of a processor is empty, the trips of its active
\* set are members, and the active set holds exactly the members when the
\* route lookup knows the route of every member.
C33_ActiveWithinMembers ==
  \A f \in FEEDS :
    feeds[f].queue = << >> =>
      /\ DOMAIN feeds[f].active_stops \subseteq feeds[f].active_stops_current
      /\ (\A t \in feeds[f].active_stops_current : RouteOf(t) \in DOMAIN routes)
           => DOMAIN feeds[f].active_stops = feeds[f].active_stops_current

\* The queue is drained with two members: the trip of the known route has an
\* entry, the trip of the unknown route has none.
C33_Witness ==
  /\ hist.call = "update"
  /\ feeds[0].queue = << >>
  /\ feeds[0].active_stops_current = { "t01", "t03" }
  /\ DOMAIN feeds[0].active_stops = { "t01" }
  /\ RouteOf("t03") \notin DOMAIN routes

\* C34: an entry of the active set is not modified while it is in the set, and
\* a fetch that accepts a message enqueues no operation for a trip that is a
\* member before and after it, whatever timestamp the message reports for the
\* trip.
C34_EntryKept ==
  [][/\ \A t \in DOMAIN feeds[0].active_stops \cap DOMAIN feeds'[0].active_stops :
          feeds'[0].active_stops[t] = feeds[0].active_stops[t]
     /\ (hist'.call = "fetch" /\ ~ hist'.stale)
          => \A t \in feeds[0].active_stops_current \cap feeds'[0].active_stops_current :
               \A o \in Pushed(feeds'[0].queue, hist'.new_len) : TripOf(o) # t]_vars

\* A fetch has accepted a message that reports the trip at another station
\* with a newer timestamp: nothing is enqueued and the entry is the old one.
C34_Witness ==
  /\ hist.call = "fetch"
  /\ ~ hist.stale
  /\ hist.new_len = 0
  /\ feeds[0].queue = << >>
  /\ hist.msg # None
  /\ StoppedAt(hist.msg[1], "t01", "B")
  /\ Timestamp(hist.msg[1]) = 2
  /\ "t01" \in DOMAIN feeds[0].active_stops
  /\ feeds[0].active_stops["t01"].stop_id = "A"
  /\ feeds[0].active_stops["t01"].timestamp = 1
  /\ feeds[0].active_stops["t01"].color = Some("red")

\* The trips whose route the route lookup does not know.
UnknownRouteTrips == { t \in Trips : RouteOf(t) \notin DOMAIN routes }

\* C35: a trip of an unknown route stays a member without an entry once its
\* Add is applied; a fetch that accepts a message of which the member is still
\* a survivor enqueues nothing for it, a fetch that accepts a message of which
\* it is no survivor enqueues its Remove, and applying that Remove leaves the
\* active set as it was.
C35_DiscardedStaysMember ==
  [][\A u \in UnknownRouteTrips :
       /\ (/\ hist'.call = "update"
           /\ hist'.applied_op # None
           /\ TripOf(hist'.applied_op[1]) = u)
            => /\ feeds'[0].active_stops = feeds[0].active_stops
               /\ u \notin DOMAIN feeds'[0].active_stops
               /\ feeds'[0].active_stops_current = feeds[0].active_stops_current
       /\ (hist'.call = "fetch" /\ ~ hist'.stale /\ u \in feeds[0].active_stops_current)
            => IF u \in SurvivorTrips(hist'.msg[1])
                 THEN /\ u \in feeds'[0].active_stops_current
                      /\ \A o \in Pushed(feeds'[0].queue, hist'.new_len) : TripOf(o) # u
                 ELSE /\ u \notin feeds'[0].active_stops_current
                      /\ [ op |-> "Remove", trip_id |-> u ]
                           \in Pushed(feeds'[0].queue, hist'.new_len)
                      /\ \A o \in Pushed(feeds'[0].queue, hist'.new_len) :
                           o.op = "Add" => TripOf(o) # u]_vars

\* The Add of the trip of the unknown route was applied and discarded, and a
\* later message without the trip has queued its Remove, the only pending
\* operation.
C35_Witness ==
  /\ hist.call = "fetch"
  /\ ~ hist.stale
  /\ hist.msg # None
  /\ "t03" \notin SurvivorTrips(hist.msg[1])
  /\ feeds[0].queue = << [ op |-> "Remove", trip_id |-> "t03" ] >>
  /\ "t03" \notin feeds[0].active_stops_current
  /\ "t03" \notin DOMAIN feeds[0].active_stops
  /\ hist.accepted = 2

\* C36: while ticks keep being issued, a queue of n >= 1 operations becomes
\* shorter, for every feed and every n: every queued operation is applied in
\* the end (a fetch queues one operation for a trip at most, onto an empty
\* queue).  A queue grows only from empty, and a tick that finds operations
\* queued on its feed applies one at least.
C36_EveryOperationApplied ==
  /\ [][\A f \in FEEDS :
          Len(feeds'[f].queue) > Len(feeds[f].queue) => feeds[f].queue = << >>]_vars
  /\ [][(pc = "loop" /\ pc' = "end" /\ tick.n >= 1) => tick'.applied >= 1]_vars
  /\ [](\A f \in FEEDS : Len(feeds[f].queue) <= Cardinality(Trips))
  /\ \A f \in FEEDS : \A n \in 1..Cardinality(Trips) :
       (Len(feeds[f].queue) = n) ~> (Len(feeds[f].queue) < n)

\* A tick on the second feed found one operation left from the visit before,
\* and has applied it without a fetch while the first feed had its turn in
\* between.
C36_Witness ==
  /\ pc = "end"
  /\ selected = << 0, 1 >>
  /\ tick.feed = 1
  /\ tick.n = 1
  /\ tick.applied = 1
  /\ tick.fetched = << >>
  /\ feeds[1].queue = << >>

\* The orders of n entities.
Perms(n) ==
  { pi \in [ 1..n -> 1..n ] : \A a, b \in 1..n : pi[a] = pi[b] => a = b }

\* Message msg with its entities in order pi.
Reordered(msg, pi) ==
  [ msg EXCEPT !.entity = [ a \in 1..Len(msg.entity) |-> msg.entity[pi[a]] ] ]

\* The entities of message msg that carry a trip update, and a vehicle
\* position, of trip t.
TripUpdatesOf(msg, t) ==
  { a \in 1..Len(msg.entity) :
      /\ msg.entity[a].trip_update # None
      /\ msg.entity[a].trip_update[1].trip.trip_id = t }

VehiclesOf(msg, t) ==
  { a \in 1..Len(msg.entity) :
      /\ msg.entity[a].vehicle # None
      /\ msg.entity[a].vehicle[1].trip # None
      /\ msg.entity[a].vehicle[1].trip[1].trip_id = t }

\* Every trip message msg names has one trip update and one vehicle record.
OneRecordEach(msg) ==
  \A t \in Trips :
    (TripUpdatesOf(msg, t) \cup VehiclesOf(msg, t)) # {}
      => (Cardinality(TripUpdatesOf(msg, t)) = 1 /\ Cardinality(VehiclesOf(msg, t)) = 1)

\* C37: when a fetch accepts a message in which every trip has one trip
\* update and one vehicle record, the members it leaves are the survivors of
\* the message under every order of its entities.
C37_SurvivorsOrderFree ==
  (Accepted /\ hist.msg # None /\ OneRecordEach(hist.msg[1]))
    => \A pi \in Perms(Len(hist.msg[1].entity)) :
         DOMAIN CurrentStopped(Reordered(hist.msg[1], pi))
           = feeds[0].active_stops_current

\* An accepted message of two trips, each with its vehicle record before its
\* trip update; both trips are members.
C37_Witness ==
  /\ Accepted
  /\ hist.msg # None
  /\ OneRecordEach(hist.msg[1])
  /\ Len(hist.msg[1].entity) = 4
  /\ hist.msg[1].entity[1].vehicle # None
  /\ hist.msg[1].entity[2].trip_update # None
  /\ feeds[0].active_stops_current = { "t01", "t02" }

\* C38: every processor starts with fetched_at 0 and an empty queue, active
\* set and membership marker, and a fetch of a message whose header timestamp
\* is 0 or absent leaves the processor as it was and enqueues nothing.
C38_NewProcessorRejectsZero ==
  /\ feeds = [ f \in FEEDS |->
                 [ fetched_at |-> 0, queue |-> << >>,
                   active_stops |-> EmptyMap, active_stops_current |-> {} ] ]
  /\ [][(/\ hist'.call = "fetch"
         /\ hist'.header # None
         /\ hist'.header[1].timestamp \in { None, Some(0) })
          => /\ feeds' = feeds
             /\ hist'.new_len = 0]_vars

\* A processor that has accepted nothing is served a message without a header
\* timestamp that reports a trip stopped at a station: it is as constructed.
C38_Witness ==
  /\ hist.call = "fetch"
  /\ hist.header = Some([ timestamp |-> None ])
  /\ hist.accepted = 0
  /\ hist.new_len = 0
  /\ feeds[0] = [ fetched_at |-> 0, queue |-> << >>,
                  active_stops |-> EmptyMap, active_stops_current |-> {} ]

====
